---------------------------- MODULE Spec2Model ----------------------------
(***************************************************************************)
(* Peer provisioning of gimmewire (src/src/wireguard.rs): add_peer,        *)
(* remove_peer, get_ip and gen_keys, together with the two collaborators   *)
(* they act on: the peer store (mongo) and the live interface (wg0, driven *)
(* through /usr/bin/wg).  Every user runs one task at a time; tasks of     *)
(* different users interleave at the external calls.                       *)
(***************************************************************************)
EXTENDS Integers, Sequences, FiniteSets, TLC

\* ------------------------------------------------------------------ bounds
\* Largest number of whitespace characters the tool writes before, and after,
\* a key.
MaxPad == 1
\* Number of users that issue add / remove commands.
NumUsers == 2
\* Number of calls made in one behaviour: add_peer and remove_peer, or
\* gen_conf and loads of the settings.
MaxCalls == 2
\* Largest number of pool addresses that are free when the behaviour starts.
MaxFree == 2
\* Exclusive end of the third octet's range (255 in get_ip).
IEnd == 2
\* Exclusive end of the fourth octet's range (255 in get_ip).
JEnd == 5

\* ------------------------------------------------------- program constants
\* First value of the fourth octet: for j in 2..255.
JStart == 2
\* Exclusive end of both octet ranges in the code: 0..255 and 2..255.
OctetEnd == 255
\* The length of an encoded key: private.len() == 44 && public.len() == 44.
KeyLen == 44
\* The subnet size gen_conf writes when the settings have none: 16.to_string().
DefaultSubnet == 16
\* The keepalive gen_conf writes when the settings have none: 25.to_string().
DefaultKeepAlive == 25
\* The prefix length add_peer appends to the address: "{}/32".
HostPrefix == 32

Users == 1..NumUsers

NoKey == <<>>
NoIp == <<>>
NoChild ==
    [cmd |-> "none", public_key |-> NoKey, allowed_ip |-> NoIp, prefix |-> 0,
     exited |-> FALSE, status |-> 0]

VARIABLES
    pc,        \* pc[u]: where user u's task stands
    op,        \* op[u]: the operation of u's current or last task
    peer,      \* peer[u]: the Peer struct the task works on
    steps,     \* steps[u]: the workflow steps the current add has completed
    seen,      \* seen[u]: the peers mongo.get_peers() returned to the add
    result,    \* result[u]: what the call returned, or how it ended
    child,     \* child[u]: the /usr/bin/wg subprocess the task spawned
    store,     \* the peer store: the persisted Peer records
    iface,     \* the live interface: its peer entries
    lock,      \* the caller's provisioning lock: its holder, or 0
    nextKey,   \* the number of key pairs generated so far, plus one
    calls,     \* the number of calls made so far
    existing,  \* get_ip on its own: the peers of its argument
    allocated  \* get_ip on its own: what it returned

\* gen_keys and gen_conf on their own.
VARIABLES
    keygen,    \* gen_keys: where it stands, what the tool wrote, what it returned
    conf,      \* the settings source: the Ini behind Arc<Mutex<Ini>>
    conf_lock, \* the Mutex of the settings source: its holder, or 0
    render,    \* render[u]: the gen_conf call for user u's peer
    fs         \* the file system: the content of each config path

otherVars == <<keygen, conf, conf_lock, render, fs>>

\* The variables of add_peer, remove_peer and get_ip.
peerVars == <<pc, op, peer, steps, seen, result, child, store, iface, lock,
              nextKey, calls, existing, allocated>>

vars == <<pc, op, peer, steps, seen, result, child, store, iface, lock,
          nextKey, calls, existing, allocated, otherVars>>

\* ------------------------------------------------------------------ values
Ip(i, j) == <<10, 0, i, j>>

\* The pool get_ip builds: 10.0.i.j for i in 0..IEnd-1, j in JStart..JEnd-1.
ip_set == {Ip(i, j) : i \in 0..(IEnd - 1), j \in JStart..(JEnd - 1)}

\* The position of a pool address, counted from 1 in octet order.
PoolIndex(a) == a[3] * (JEnd - JStart) + (a[4] - JStart) + 1

PrivateKey(k) == <<"private", k>>
PublicKey(k) == <<"public", k>>

\* A Peer as the caller constructs it: only user_id (and username) set.
EmptyPeer(u) ==
    [user_id |-> u, public_key |-> NoKey, private_key |-> NoKey, ip |-> NoIp]

\* The record of a peer provisioned before the behaviour starts, at address a.
LegacyPeer(a) ==
    [user_id |-> 0 - PoolIndex(a), public_key |-> PublicKey(0 - PoolIndex(a)),
     private_key |-> PrivateKey(0 - PoolIndex(a)), ip |-> a]


\* HashSet<Ipv4Addr> of the peers' addresses: flat_map skips a peer with no ip.
peers_ip_set(peers) == {p.ip : p \in {q \in peers : q.ip # NoIp}}

\* get_ip with the difference forgotten: any pool address, taken or not.
get_ip_any(peers) == ip_set

\* get_ip with the fourth octet started at 1 instead of 2.
get_ip_low(peers) ==
    {Ip(i, j) : i \in 0..(IEnd - 1), j \in (JStart - 1)..(JEnd - 1)}
        \ peers_ip_set(peers)

\* get_ip: the values ip_set.difference(&peers_ip_set).next() can yield.  A
\* HashSet iterates in an order that differs from run to run, so any element
\* of the difference can come first; the empty set stands for next() = None,
\* on which unwrap() panics.
get_ip(peers) == ip_set \ peers_ip_set(peers)

\* The places of gen_keys that panic, in the order of its code (lines 144,
\* 149, 154, 169, 179, 184 and 189).
KeyGenFaults ==
    {"genkey_spawn", "genkey_wait", "genkey_status",
     "pubkey_spawn", "pubkey_stdin", "pubkey_wait", "pubkey_status"}

NoResult == [kind |-> "none", why |-> ""]
Ok == [kind |-> "Ok", why |-> ""]
Err(why) == [kind |-> "Err", why |-> why]
Panic(where) == [kind |-> "panic", why |-> where]

\* The interface's entry for a public key, as wg set ... allowed-ips writes it:
\* the key and its one allowed address range, ip/prefix.
Entry(key, ip, prefix) ==
    [public_key |-> key, allowed_ip |-> ip, prefix |-> prefix]

\* The records of the store that belong to user u (upsert keeps at most one).
RecordsOf(u) == {r \in store : r.user_id = u}

\* The lock is released by whoever holds it when its task ends.
Release(u) == IF lock = u THEN 0 ELSE lock

\* gen_keys is not called.
NoKeyGen ==
    keygen = [pc |-> "none", private_out |-> <<>>, public_out |-> <<>>,
              keys |-> <<>>]

\* No settings are loaded and gen_conf is not called.
NoRender ==
    /\ conf = <<>>
    /\ conf_lock = 0
    /\ render = <<>>
    /\ fs = <<>>

\* ------------------------------------------------------------------- Init
\* The store holds the peers provisioned earlier, each at its own address and
\* registered with the interface: the first n addresses of the pool, for any n
\* that leaves at most MaxFree addresses free.
InitTasks ==
    /\ pc = [u \in Users |-> "idle"]
    /\ op = [u \in Users |-> "none"]
    /\ peer = [u \in Users |-> EmptyPeer(u)]
    /\ steps = [u \in Users |-> <<>>]
    /\ seen = [u \in Users |-> {}]
    /\ result = [u \in Users |-> NoResult]
    /\ child = [u \in Users |-> NoChild]

Init ==
    /\ InitTasks
    /\ \E n \in (Cardinality(ip_set) - MaxFree)..Cardinality(ip_set) :
          /\ store = {LegacyPeer(a) : a \in {b \in ip_set : PoolIndex(b) <= n}}
          /\ iface = {Entry(LegacyPeer(a).public_key, a, HostPrefix) :
                         a \in {b \in ip_set : PoolIndex(b) <= n}}
    /\ lock = 0
    /\ nextKey = 1
    /\ calls = 0
    /\ existing = {}
    /\ allocated = NoIp
    /\ NoKeyGen
    /\ NoRender

\* ------------------------------------------------------------ the caller
\* The caller constructs an empty Peer and calls add_peer on it.
BeginAdd(u) ==
    /\ pc[u] = "idle"
    /\ calls < MaxCalls
    /\ calls' = calls + 1
    /\ pc' = [pc EXCEPT ![u] = "gen_keys"]
    /\ op' = [op EXCEPT ![u] = "add"]
    /\ peer' = [peer EXCEPT ![u] = EmptyPeer(u)]
    /\ steps' = [steps EXCEPT ![u] = <<>>]
    /\ seen' = [seen EXCEPT ![u] = {}]
    /\ result' = [result EXCEPT ![u] = NoResult]
    /\ child' = [child EXCEPT ![u] = NoChild]
    /\ UNCHANGED <<store, iface, nextKey, existing, allocated, otherVars>>

\* A caller that takes no lock around the add.
CallerAdd(u) ==
    /\ BeginAdd(u)
    /\ UNCHANGED lock

\* A caller that holds the provisioning lock from before the add until it has
\* persisted the record (or given the add up).
CallerAddLocked(u) ==
    /\ lock = 0
    /\ lock' = u
    /\ BeginAdd(u)

\* -------------------------------------------------------------- /usr/bin/wg
\* What wg set does to the interface when it succeeds: allowed-ips replaces
\* the entry of the key, remove drops it.
wg_set(c) ==
    IF c.cmd = "allowed-ips"
    THEN {e \in iface : e.public_key # c.public_key}
             \cup {Entry(c.public_key, c.allowed_ip, c.prefix)}
    ELSE {e \in iface : e.public_key # c.public_key}

\* The child spawned by task u runs to its end: it exits with status 0 after
\* changing the interface, or with a non-zero status and the interface as it
\* was.  No task reads the interface, and the entries of different keys do not
\* touch, so the moment between spawn and the return of wait() at which the
\* child acts makes no difference: it acts here, as wait() returns.
WgExit(u) ==
    \/ /\ child' = [child EXCEPT ![u].exited = TRUE, ![u].status = 0]
       /\ iface' = wg_set(child[u])
    \/ /\ child' = [child EXCEPT ![u].exited = TRUE, ![u].status = 1]
       /\ UNCHANGED iface

\* ---------------------------------------------------------------- add_peer
\* gen_keys returned: the trimmed outputs of wg genkey and wg pubkey.
gen_keys(k) == <<PrivateKey(k), PublicKey(k)>>

\* Lines 23-25: the keys are generated and stored in the Peer.
AddGenKeys(u) ==
    /\ pc[u] = "gen_keys"
    /\ peer' = [peer EXCEPT ![u].private_key = gen_keys(nextKey)[1],
                            ![u].public_key = gen_keys(nextKey)[2]]
    /\ nextKey' = nextKey + 1
    /\ steps' = [steps EXCEPT ![u] = Append(@, "KeysGenerated")]
    /\ pc' = [pc EXCEPT ![u] = "get_ip"]
    /\ UNCHANGED <<op, seen, result, child, store, iface, lock, calls,
                   existing, allocated, otherVars>>

\* Line 23: gen_keys panics; the task unwinds and drops what it holds.
AddGenKeysPanic(u) ==
    /\ pc[u] = "gen_keys"
    /\ \E fault \in KeyGenFaults :
          result' = [result EXCEPT ![u] = Panic("gen_keys")]
    /\ pc' = [pc EXCEPT ![u] = "panicked"]
    /\ lock' = Release(u)
    /\ UNCHANGED <<op, peer, steps, seen, child, store, iface, nextKey, calls,
                   existing, allocated, otherVars>>

\* add_peer with an empty peer list handed to get_ip.
AddGetIpNoPeers(u) ==
    /\ pc[u] = "get_ip"
    /\ seen' = [seen EXCEPT ![u] = {}]
    /\ \E a \in get_ip({}) : peer' = [peer EXCEPT ![u].ip = a]
    /\ steps' = [steps EXCEPT ![u] = Append(@, "AddressAllocated")]
    /\ pc' = [pc EXCEPT ![u] = "spawn"]
    /\ UNCHANGED <<op, result, child, store, iface, lock, nextKey, calls,
                   existing, allocated, otherVars>>

\* Line 26: the peers are read from the store and get_ip picks a free address.
AddGetIp(u) ==
    /\ pc[u] = "get_ip"
    /\ seen' = [seen EXCEPT ![u] = store]
    /\ \E a \in get_ip(store) : peer' = [peer EXCEPT ![u].ip = a]
    /\ steps' = [steps EXCEPT ![u] = Append(@, "AddressAllocated")]
    /\ pc' = [pc EXCEPT ![u] = "spawn"]
    /\ UNCHANGED <<op, result, child, store, iface, lock, nextKey, calls,
                   existing, allocated, otherVars>>

\* Line 135: no address is free, next() is None and unwrap() panics.
AddGetIpPanic(u) ==
    /\ pc[u] = "get_ip"
    /\ get_ip(store) = {}
    /\ seen' = [seen EXCEPT ![u] = store]
    /\ result' = [result EXCEPT ![u] = Panic("get_ip")]
    /\ pc' = [pc EXCEPT ![u] = "panicked"]
    /\ lock' = Release(u)
    /\ UNCHANGED <<op, peer, steps, child, store, iface, nextKey, calls,
                   existing, allocated, otherVars>>

\* add_peer with the registration moved before the allocation: the command is
\* spawned (with the ip the Peer has by then) as soon as the keys are there.
AddSpawnBeforeGetIp(u) ==
    /\ pc[u] \in {"get_ip", "spawn"}
    /\ op[u] = "add"
    /\ child' = [child EXCEPT ![u] =
                    [cmd |-> "allowed-ips",
                     public_key |-> peer[u].public_key,
                     allowed_ip |-> peer[u].ip,
                     prefix |-> HostPrefix,
                     exited |-> FALSE, status |-> 0]]
    /\ pc' = [pc EXCEPT ![u] = "wait"]
    /\ UNCHANGED <<op, peer, steps, seen, result, store, iface, lock, nextKey,
                   calls, existing, allocated, otherVars>>

\* add_peer with the spawn error dropped: Err(why) falls through to Ok(()).
AddSpawnErrorIgnored(u) ==
    /\ pc[u] = "spawn"
    /\ op[u] = "add"
    /\ \/ /\ child' = [child EXCEPT ![u] =
                          [cmd |-> "allowed-ips",
                           public_key |-> peer[u].public_key,
                           allowed_ip |-> peer[u].ip,
                           prefix |-> HostPrefix,
                           exited |-> FALSE, status |-> 0]]
          /\ pc' = [pc EXCEPT ![u] = "wait"]
          /\ UNCHANGED result
       \/ /\ result' = [result EXCEPT ![u] = Ok]
          /\ pc' = [pc EXCEPT ![u] = "returned"]
          /\ UNCHANGED child
    /\ UNCHANGED <<op, peer, steps, seen, store, iface, lock, nextKey, calls,
                   existing, allocated, otherVars>>

\* add_peer with the address registered as a subnet: allowed-ips <ip>/16.
AddSpawnSubnet(u) ==
    /\ pc[u] = "spawn"
    /\ op[u] = "add"
    /\ \/ /\ child' = [child EXCEPT ![u] =
                          [cmd |-> "allowed-ips",
                           public_key |-> peer[u].public_key,
                           allowed_ip |-> peer[u].ip,
                           prefix |-> HostPrefix - 16,
                           exited |-> FALSE, status |-> 0]]
          /\ pc' = [pc EXCEPT ![u] = "wait"]
          /\ UNCHANGED result
       \/ /\ result' = [result EXCEPT ![u] = Err("spawn")]
          /\ pc' = [pc EXCEPT ![u] = "returned"]
          /\ UNCHANGED child
    /\ UNCHANGED <<op, peer, steps, seen, store, iface, lock, nextKey, calls,
                   existing, allocated, otherVars>>

\* Lines 27-40: wg set wg0 peer <public_key> allowed-ips <ip>/32 is spawned,
\* or spawn fails and add_peer returns the error.
AddSpawn(u) ==
    /\ pc[u] = "spawn"
    /\ op[u] = "add"
    /\ \/ /\ child' = [child EXCEPT ![u] =
                          [cmd |-> "allowed-ips",
                           public_key |-> peer[u].public_key,
                           allowed_ip |-> peer[u].ip,
                           prefix |-> HostPrefix,
                           exited |-> FALSE, status |-> 0]]
          /\ pc' = [pc EXCEPT ![u] = "wait"]
          /\ UNCHANGED result
       \/ /\ result' = [result EXCEPT ![u] = Err("spawn")]
          /\ pc' = [pc EXCEPT ![u] = "returned"]
          /\ UNCHANGED child
    /\ UNCHANGED <<op, peer, steps, seen, store, iface, lock, nextKey, calls,
                   existing, allocated, otherVars>>

\* add_peer with the Peer put back as it was passed in when wait() fails.
AddWaitRestores(u) ==
    /\ pc[u] = "wait"
    /\ op[u] = "add"
    /\ WgExit(u)
    /\ \/ /\ result' = [result EXCEPT ![u] = Ok]
          /\ steps' = [steps EXCEPT ![u] = Append(@, "InterfaceRegistered")]
          /\ UNCHANGED peer
       \/ /\ result' = [result EXCEPT ![u] = Err("wait")]
          /\ peer' = [peer EXCEPT ![u] = EmptyPeer(u)]
          /\ UNCHANGED steps
    /\ pc' = [pc EXCEPT ![u] = "returned"]
    /\ UNCHANGED <<op, seen, store, lock, nextKey, calls, existing, allocated,
                   otherVars>>

\* Lines 41-44: the child runs to its end and wait() returns.  Ok(_) => Ok(())
\* whatever the exit status; Err(why) => Err, whatever the child has done.
AddWait(u) ==
    /\ pc[u] = "wait"
    /\ op[u] = "add"
    /\ WgExit(u)
    /\ \/ /\ result' = [result EXCEPT ![u] = Ok]
          /\ steps' = [steps EXCEPT ![u] = Append(@, "InterfaceRegistered")]
       \/ /\ result' = [result EXCEPT ![u] = Err("wait")]
          /\ UNCHANGED steps
    /\ pc' = [pc EXCEPT ![u] = "returned"]
    /\ UNCHANGED <<op, peer, seen, store, lock, nextKey, calls, existing,
                   allocated, otherVars>>

\* ------------------------------------------------------------- remove_peer
\* The caller loads the peer's record and calls remove_peer on it.
CallerRemove(u) ==
    /\ pc[u] = "idle"
    /\ \E r \in RecordsOf(u) : peer' = [peer EXCEPT ![u] = r]
    /\ pc' = [pc EXCEPT ![u] = "spawn"]
    /\ op' = [op EXCEPT ![u] = "remove"]
    /\ steps' = [steps EXCEPT ![u] = <<>>]
    /\ seen' = [seen EXCEPT ![u] = {}]
    /\ result' = [result EXCEPT ![u] = NoResult]
    /\ child' = [child EXCEPT ![u] = NoChild]
    /\ calls < MaxCalls
    /\ calls' = calls + 1
    /\ UNCHANGED <<store, iface, lock, nextKey, existing, allocated, otherVars>>

\* Lines 48-60: wg set wg0 peer <public_key> remove is spawned, or spawn fails
\* and remove_peer returns the error.
RemoveSpawn(u) ==
    /\ pc[u] = "spawn"
    /\ op[u] = "remove"
    /\ \/ /\ child' = [child EXCEPT ![u] =
                          [cmd |-> "remove",
                           public_key |-> peer[u].public_key,
                           allowed_ip |-> NoIp,
                           prefix |-> 0,
                           exited |-> FALSE, status |-> 0]]
          /\ pc' = [pc EXCEPT ![u] = "wait"]
          /\ UNCHANGED result
       \/ /\ result' = [result EXCEPT ![u] = Err("spawn")]
          /\ pc' = [pc EXCEPT ![u] = "returned"]
          /\ UNCHANGED child
    /\ UNCHANGED <<op, peer, steps, seen, store, iface, lock, nextKey, calls,
                   existing, allocated, otherVars>>

\* remove_peer that also deletes the peer's record when the child has run.
RemoveWaitDeletes(u) ==
    /\ pc[u] = "wait"
    /\ op[u] = "remove"
    /\ WgExit(u)
    /\ \/ /\ result' = [result EXCEPT ![u] = Ok]
          /\ store' = store \ {peer[u]}
       \/ /\ result' = [result EXCEPT ![u] = Err("wait")]
          /\ UNCHANGED store
    /\ pc' = [pc EXCEPT ![u] = "returned"]
    /\ UNCHANGED <<op, peer, steps, seen, lock, nextKey, calls, existing,
                   allocated, otherVars>>

\* Lines 61-64: the child runs to its end and wait() returns.  Ok(_) => Ok(())
\* whatever the exit status; Err(why) => Err, whatever the child has done.
RemoveWait(u) ==
    /\ pc[u] = "wait"
    /\ op[u] = "remove"
    /\ WgExit(u)
    /\ \/ result' = [result EXCEPT ![u] = Ok]
       \/ result' = [result EXCEPT ![u] = Err("wait")]
    /\ pc' = [pc EXCEPT ![u] = "returned"]
    /\ UNCHANGED <<op, peer, steps, seen, store, lock, nextKey, calls,
                   existing, allocated, otherVars>>

\* ------------------------------------------------- the caller, afterwards
\* The task is over: the Peer it worked on and its other locals are dropped.
Finished(u) ==
    /\ pc' = [pc EXCEPT ![u] = "idle"]
    /\ op' = [op EXCEPT ![u] = "none"]
    /\ peer' = [peer EXCEPT ![u] = EmptyPeer(u)]
    /\ steps' = [steps EXCEPT ![u] = <<>>]
    /\ seen' = [seen EXCEPT ![u] = {}]
    /\ result' = [result EXCEPT ![u] = NoResult]
    /\ child' = [child EXCEPT ![u] = NoChild]

\* add_peer returned Ok(()): the caller persists the Peer (an upsert by
\* user_id) and lets go of the lock if it holds it.
CallerPersist(u) ==
    /\ pc[u] = "returned"
    /\ op[u] = "add"
    /\ result[u].kind = "Ok"
    /\ store' = (store \ RecordsOf(u)) \cup {peer[u]}
    /\ lock' = Release(u)
    /\ Finished(u)
    /\ UNCHANGED <<iface, nextKey, calls, existing, allocated, otherVars>>

\* add_peer returned an error: the caller persists nothing.
CallerAbort(u) ==
    /\ pc[u] = "returned"
    /\ op[u] = "add"
    /\ result[u].kind = "Err"
    /\ lock' = Release(u)
    /\ Finished(u)
    /\ UNCHANGED <<store, iface, nextKey, calls, existing, allocated,
                   otherVars>>

\* remove_peer returned Ok(()): the caller deletes the record.
CallerDelete(u) ==
    /\ pc[u] = "returned"
    /\ op[u] = "remove"
    /\ result[u].kind = "Ok"
    /\ store' = store \ RecordsOf(u)
    /\ Finished(u)
    /\ UNCHANGED <<iface, lock, nextKey, calls, existing, allocated, otherVars>>

\* remove_peer returned an error: the caller keeps the record.
CallerKeep(u) ==
    /\ pc[u] = "returned"
    /\ op[u] = "remove"
    /\ result[u].kind = "Err"
    /\ Finished(u)
    /\ UNCHANGED <<store, iface, lock, nextKey, calls, existing, allocated,
                   otherVars>>

\* ------------------------------------------------------------ specifications
Step(u) ==
    \/ AddGenKeys(u) \/ AddGenKeysPanic(u)
    \/ AddGetIp(u) \/ AddGetIpPanic(u)
    \/ AddSpawn(u) \/ AddWait(u)
    \/ CallerRemove(u) \/ RemoveSpawn(u) \/ RemoveWait(u)
    \/ CallerPersist(u) \/ CallerAbort(u) \/ CallerDelete(u) \/ CallerKeep(u)

\* Adds and removes of all users interleave freely: the code on its own.
Next == \E u \in Users : CallerAdd(u) \/ Step(u)

Spec == Init /\ [][Next]_vars

\* At most one add is in flight: the caller serializes adds with the lock.
SerialNext == \E u \in Users : CallerAddLocked(u) \/ Step(u)

SerialSpec == Init /\ [][SerialNext]_vars

\* -------------------------------------------------- users that are active
\* The record of user u, provisioned before the behaviour starts at the u-th
\* address of the pool.
ActivePeer(u) ==
    [user_id |-> u, public_key |-> PublicKey(0 - u),
     private_key |-> PrivateKey(0 - u),
     ip |-> CHOOSE a \in ip_set : PoolIndex(a) = u]

\* Every user is active when the behaviour starts; the other addresses are
\* held by the peers provisioned earlier, but for the last ones: fewer than
\* MaxFree are free.
ActiveInit ==
    /\ InitTasks
    /\ \E n \in (Cardinality(ip_set) - MaxFree + 1)..Cardinality(ip_set) :
          store = {ActivePeer(u) : u \in Users}
                      \cup {LegacyPeer(a) :
                               a \in {b \in ip_set :
                                         /\ PoolIndex(b) > NumUsers
                                         /\ PoolIndex(b) <= n}}
    /\ iface = {Entry(r.public_key, r.ip, HostPrefix) : r \in store}
    /\ lock = 0
    /\ nextKey = 1
    /\ calls = 0
    /\ existing = {}
    /\ allocated = NoIp
    /\ NoKeyGen
    /\ NoRender

ActiveSpec == ActiveInit /\ [][Next]_vars

\* ------------------------------------------------------- get_ip on its own
\* What get_ip left behind when unwrap() panicked.
Panicked == <<"panic">>

\* Any list of peers: peers that hold pool addresses, and one that holds none.
AllocInit ==
    /\ InitTasks
    /\ store = {}
    /\ iface = {}
    /\ lock = 0
    /\ nextKey = 1
    /\ calls = 0
    /\ existing \in SUBSET ({LegacyPeer(a) : a \in ip_set} \cup {EmptyPeer(1)})
    /\ allocated = NoIp
    /\ NoKeyGen
    /\ NoRender

\* get_ip(&mut existing) returns.
GetIpReturns ==
    /\ allocated = NoIp
    /\ allocated' \in get_ip(existing)
    /\ UNCHANGED <<pc, op, peer, steps, seen, result, child, store, iface,
                   lock, nextKey, calls, existing, otherVars>>

\* get_ip(&mut existing) panics in unwrap().
GetIpPanics ==
    /\ allocated = NoIp
    /\ get_ip(existing) = {}
    /\ allocated' = Panicked
    /\ UNCHANGED <<pc, op, peer, steps, seen, result, child, store, iface,
                   lock, nextKey, calls, existing, otherVars>>

AllocNext == GetIpReturns \/ GetIpPanics

AllocSpec == AllocInit /\ [][AllocNext]_vars

\* ----------------------------------------------------- gen_keys on its own
\* No add or remove is called and the store is empty.
NoProvisioning ==
    /\ InitTasks
    /\ store = {}
    /\ iface = {}
    /\ lock = 0
    /\ nextKey = 1
    /\ calls = 0
    /\ existing = {}
    /\ allocated = NoIp

\* The characters str::trim removes that the tool's output can hold.
Whitespace == {" ", "\n"}

\* An encoded key: KeyLen characters of base64, the last one the padding.
EncodedKey(c) == [i \in 1..KeyLen |-> IF i = KeyLen THEN "=" ELSE c]

\* The sequences of at most n whitespace characters.
RECURSIVE Pads(_)
Pads(n) ==
    IF n = 0 THEN {<<>>}
    ELSE Pads(n - 1)
             \cup {Append(p, w) : p \in {q \in Pads(n - 1) : Len(q) = n - 1},
                                  w \in Whitespace}

\* What wg genkey and wg pubkey write to standard output: a key, with
\* whitespace around it (the tool ends its output with a newline).
ToolOutputs ==
    {before \o EncodedKey(c) \o after :
        c \in {"A", "z"}, before \in Pads(MaxPad), after \in Pads(MaxPad)}

\* str::trim_start and str::trim_end.
RECURSIVE trim_start(_)
trim_start(s) ==
    IF s # <<>> /\ Head(s) \in Whitespace THEN trim_start(Tail(s)) ELSE s

RECURSIVE trim_end(_)
trim_end(s) ==
    IF s # <<>> /\ s[Len(s)] \in Whitespace
    THEN trim_end(SubSeq(s, 1, Len(s) - 1))
    ELSE s

\* str::trim.
trim(s) == trim_end(trim_start(s))

KeyInit ==
    /\ NoProvisioning
    /\ NoRender
    /\ keygen = [pc |-> "genkey", private_out |-> <<>>, public_out |-> <<>>,
                 keys |-> <<>>]

\* Lines 139-160: wg genkey runs and its standard output is read.
GenkeyRuns ==
    /\ keygen.pc = "genkey"
    /\ \E out \in ToolOutputs :
          keygen' = [keygen EXCEPT !.pc = "pubkey", !.private_out = out]
    /\ UNCHANGED <<peerVars, conf, conf_lock, render, fs>>

\* Lines 144, 149 and 154: wg genkey cannot be run, or fails.
GenkeyPanics ==
    /\ keygen.pc = "genkey"
    /\ \E fault \in {"genkey_spawn", "genkey_wait", "genkey_status"} :
          keygen' = [keygen EXCEPT !.pc = "panicked"]
    /\ UNCHANGED <<peerVars, conf, conf_lock, render, fs>>

\* Lines 162-195: wg pubkey is given the private key and its standard output
\* is read.
PubkeyRuns ==
    /\ keygen.pc = "pubkey"
    /\ \E out \in ToolOutputs :
          keygen' = [keygen EXCEPT !.pc = "return", !.public_out = out]
    /\ UNCHANGED <<peerVars, conf, conf_lock, render, fs>>

\* Lines 169, 179, 184 and 189: wg pubkey cannot be run, or fails.
PubkeyPanics ==
    /\ keygen.pc = "pubkey"
    /\ \E fault \in {"pubkey_spawn", "pubkey_stdin", "pubkey_wait",
                      "pubkey_status"} :
          keygen' = [keygen EXCEPT !.pc = "panicked"]
    /\ UNCHANGED <<peerVars, conf, conf_lock, render, fs>>

\* gen_keys that returns the outputs as the tool wrote them.
GenKeysReturnsUntrimmed ==
    /\ keygen.pc = "return"
    /\ keygen' = [keygen EXCEPT !.pc = "returned",
                                !.keys = <<keygen.private_out,
                                           keygen.public_out>>]
    /\ UNCHANGED <<peerVars, conf, conf_lock, render, fs>>

\* Lines 197-200: both outputs are trimmed and returned.
GenKeysReturns ==
    /\ keygen.pc = "return"
    /\ keygen' = [keygen EXCEPT !.pc = "returned",
                                !.keys = <<trim(keygen.private_out),
                                           trim(keygen.public_out)>>]
    /\ UNCHANGED <<peerVars, conf, conf_lock, render, fs>>

KeyNext ==
    \/ GenkeyRuns \/ GenkeyPanics
    \/ PubkeyRuns \/ PubkeyPanics
    \/ GenKeysReturns

KeySpec == KeyInit /\ [][KeyNext]_vars

\* ----------------------------------------------------- gen_conf on its own
\* Option<String>.
None == <<"None">>
Some(v) == <<"Some", v>>
unwrap_or(opt, default) == IF opt = None THEN default ELSE opt[2]

\* The string a number or an address is formatted to.
to_string(x) == <<"string", x>>

\* format!("{}/{}", a, b).
format_slash(a, b) == <<a, "/", b>>

\* The settings gen_conf reads from section Peer, in the order it reads them.
ReadOrder == <<"Subnet", "DNS", "Key", "Endpoint", "KeepAlive">>
SettingKeys == {ReadOrder[i] : i \in 1..Len(ReadOrder)}

\* The n-th value the settings source has held for a setting.
SettingValue(key, n) == <<key, n>>

\* conf.get("Peer", key).
get(key) == conf[key]

\* The task that loads the settings source.
Updater == NumUsers + 1

\* The Peer of user u handed to gen_conf: every field is set.
Username(u) == <<"user", u>>
RenderPeer(u) ==
    [user_id |-> u, username |-> Username(u), public_key |-> PublicKey(u),
     private_key |-> PrivateKey(u),
     ip |-> CHOOSE a \in ip_set : PoolIndex(a) = u]

\* dirs::home_dir().
Home == "home"

\* format!("{}/{}.conf", home, peer.username).
config_path(p) == <<Home, "/", p.username, ".conf">>

\* config.set(section, key, value) on the Ini being built.
set(config, section, key, value) == (<<section, key>> :> value) @@ config

NoRenderCall == [pc |-> "idle", at |-> 0, config |-> <<>>, locks |-> 0,
                 result |-> NoResult]

\* What gen_conf sets from the value opt it read for the i-th setting.
SetFrom(config, i, opt, p) ==
    CASE ReadOrder[i] = "Subnet" ->
             set(config, "Interface", "Address",
                 Some(format_slash(to_string(p.ip),
                                   unwrap_or(opt, to_string(DefaultSubnet)))))
      [] ReadOrder[i] = "DNS" ->
             set(config, "Interface", "DNS", Some(unwrap_or(opt, "8.8.8.8")))
      [] ReadOrder[i] = "Key" -> set(config, "Peer", "PublicKey", opt)
      [] ReadOrder[i] = "Endpoint" ->
             set(set(config, "Peer", "Endpoint", opt),
                 "Peer", "AllowedIPs", Some("0.0.0.0/0"))
      [] ReadOrder[i] = "KeepAlive" ->
             set(config, "Peer", "PersistentKeepalive",
                 Some(unwrap_or(opt, to_string(DefaultKeepAlive))))

\* Lines 68-73: gen_conf is called for the peer of user u; it creates the Ini
\* and sets the private key.
BeginRender(u) ==
    /\ render[u].pc = "idle"
    /\ calls < MaxCalls
    /\ calls' = calls + 1
    /\ render' = [render EXCEPT ![u] =
                     [pc |-> "lock", at |-> 1,
                      config |-> set(<<>>, "Interface", "PrivateKey",
                                     Some(RenderPeer(u).private_key)),
                      locks |-> 0, result |-> NoResult]]
    /\ UNCHANGED <<pc, op, peer, steps, seen, result, child, store, iface,
                   lock, nextKey, existing, allocated, keygen, conf,
                   conf_lock, fs>>

\* conf.lock().await: the task waits until the Mutex is free and takes it.
RenderLock(u) ==
    /\ render[u].pc = "lock"
    /\ conf_lock = 0
    /\ conf_lock' = u
    /\ render' = [render EXCEPT ![u].pc = "read", ![u].locks = @ + 1]
    /\ UNCHANGED <<peerVars, keygen, conf, fs>>

\* The file at path once content is written to it: what it holds, and how
\* many times it has been written.
Written(path, content) ==
    [content |-> content,
     writes |-> IF path \in DOMAIN fs THEN fs[path].writes + 1 ELSE 1]

\* What a read of the settings leaves in the call of user u: the field is
\* set, and the call goes on to the next setting or to the write.
AfterRead(u, config) ==
    [render[u] EXCEPT
        !.config = config,
        !.pc = IF render[u].at = Len(ReadOrder) THEN "write" ELSE "lock",
        !.at = IF render[u].at = Len(ReadOrder) THEN 0 ELSE @ + 1]

\* gen_conf with the defaults written whatever the settings hold.
RenderReadDefaults(u) ==
    /\ render[u].pc = "read"
    /\ conf_lock = u
    /\ render' = [render EXCEPT ![u] =
                     AfterRead(u, SetFrom(render[u].config, render[u].at,
                                          None, RenderPeer(u)))]
    /\ conf_lock' = 0
    /\ UNCHANGED <<peerVars, keygen, conf, fs>>

\* gen_conf with the guard of a read kept when the statement ends.
RenderReadKeepsGuard(u) ==
    /\ render[u].pc = "read"
    /\ conf_lock = u
    /\ render' = [render EXCEPT ![u] =
                     AfterRead(u, SetFrom(render[u].config, render[u].at,
                                          get(ReadOrder[render[u].at]),
                                          RenderPeer(u)))]
    /\ UNCHANGED conf_lock
    /\ UNCHANGED <<peerVars, keygen, conf, fs>>

\* Lines 74-112, one statement each: with the guard held, get("Peer", key)
\* is read and the field is set; the guard, a temporary of the statement, is
\* dropped at its end.
RenderRead(u) ==
    /\ render[u].pc = "read"
    /\ conf_lock = u
    /\ render' = [render EXCEPT ![u] =
                     AfterRead(u, SetFrom(render[u].config, render[u].at,
                                          get(ReadOrder[render[u].at]),
                                          RenderPeer(u)))]
    /\ conf_lock' = 0
    /\ UNCHANGED <<peerVars, keygen, conf, fs>>

\* gen_conf with the file named after the call instead of the user.
RenderWritePerCall(u) ==
    /\ render[u].pc = "write"
    /\ \/ /\ fs' = (<<Home, "/", <<"call", calls>>, ".conf">>
                       :> Written(<<Home, "/", <<"call", calls>>, ".conf">>,
                                  render[u].config)) @@ fs
          /\ render' = [render EXCEPT
                            ![u].pc = "returned",
                            ![u].result =
                                [kind |-> "Ok",
                                 why |-> <<Home, "/", <<"call", calls>>,
                                           ".conf">>]]
       \/ /\ render' = [render EXCEPT ![u].pc = "returned",
                                       ![u].result = Err("write")]
          /\ UNCHANGED fs
    /\ UNCHANGED <<peerVars, keygen, conf, conf_lock>>

\* Lines 113-124: the Ini is written to <home>/<username>.conf and the path
\* is returned, or the write fails and its error is returned.
RenderWrite(u) ==
    /\ render[u].pc = "write"
    /\ \/ /\ fs' = (config_path(RenderPeer(u))
                       :> Written(config_path(RenderPeer(u)),
                                  render[u].config)) @@ fs
          /\ render' = [render EXCEPT
                            ![u].pc = "returned",
                            ![u].result =
                                [kind |-> "Ok",
                                 why |-> config_path(RenderPeer(u))]]
       \/ /\ render' = [render EXCEPT ![u].pc = "returned",
                                       ![u].result = Err("write")]
          /\ UNCHANGED fs
    /\ UNCHANGED <<peerVars, keygen, conf, conf_lock>>

\* The caller takes what gen_conf returned; the call's locals are dropped.
RenderDone(u) ==
    /\ render[u].pc = "returned"
    /\ render' = [render EXCEPT ![u] = NoRenderCall]
    /\ UNCHANGED <<peerVars, keygen, conf, conf_lock, fs>>

\* config.lock().await of the task that loads the settings.
UpdateLock ==
    /\ calls < MaxCalls
    /\ conf_lock = 0
    /\ conf_lock' = Updater
    /\ calls' = calls + 1
    /\ UNCHANGED <<pc, op, peer, steps, seen, result, child, store, iface,
                   lock, nextKey, existing, allocated, keygen, conf, render,
                   fs>>

\* .read(content): the settings are replaced by those of the content, and
\* the guard is dropped at the end of the statement.
UpdateRead ==
    /\ conf_lock = Updater
    /\ conf' = [k \in SettingKeys |-> Some(SettingValue(k, calls))]
    /\ conf_lock' = 0
    /\ UNCHANGED <<peerVars, keygen, render, fs>>

\* Any settings source: each setting is there or is missing.
RenderInit ==
    /\ NoProvisioning
    /\ NoKeyGen
    /\ conf \in {c \in [SettingKeys -> {None} \cup
                                            {Some(SettingValue(k, 0)) :
                                                k \in SettingKeys}] :
                    \A k \in SettingKeys :
                        c[k] \in {None, Some(SettingValue(k, 0))}}
    /\ conf_lock = 0
    /\ render = [u \in Users |-> NoRenderCall]
    /\ fs = <<>>

RenderStep(u) ==
    \/ BeginRender(u) \/ RenderLock(u) \/ RenderRead(u)
    \/ RenderWrite(u) \/ RenderDone(u)

\* gen_conf calls with the settings as they were loaded.
RenderNext == \E u \in Users : RenderStep(u)

RenderSpec == RenderInit /\ [][RenderNext]_vars

\* gen_conf calls while the settings are loaded again.
ConfInit ==
    /\ NoProvisioning
    /\ NoKeyGen
    /\ conf = [k \in SettingKeys |-> Some(SettingValue(k, 0))]
    /\ conf_lock = 0
    /\ render = [u \in Users |-> NoRenderCall]
    /\ fs = <<>>

ConfNext == RenderNext \/ UpdateLock \/ UpdateRead

ConfSpec == ConfInit /\ [][ConfNext]_vars

\* Every task that can take a step takes one in the end: the executor polls
\* every task that is ready, and the Mutex wakes a waiter when it is free.
ConfLiveSpec ==
    /\ ConfSpec
    /\ \A u \in Users :
          WF_vars(RenderLock(u) \/ RenderRead(u) \/ RenderWrite(u))
    /\ WF_vars(UpdateRead)

\* ------------------------------------------------------------------ claims
\* The add of user u has been given its address.
Allocated(u) == op[u] = "add" /\ Len(steps[u]) >= 2

\* Two different records of the store hold the same address.
DuplicateAddress ==
    \E r1 \in store : \E r2 \in store : r1 # r2 /\ r1.ip = r2.ip

\* C1: with at most one add in flight at a time (the caller holds the lock
\* from before the add until the record is persisted), no two peers of the
\* store hold the same address, and no user has two records.
C1_AddressesUnique ==
    /\ ~DuplicateAddress
    /\ \A u \in Users : Cardinality(RecordsOf(u)) <= 1

\* C1's case: two users have been added one after the other, and both hold an
\* address.
C1_TwoUsersAdded ==
    \E u1 \in Users : \E u2 \in Users :
        u1 # u2 /\ RecordsOf(u1) # {} /\ RecordsOf(u2) # {}

\* C2: without the lock, the address an add was given was free in the peer
\* list that add read, and a record of the store that holds the same address
\* was not in that list: it was persisted after the read, by an add that ran
\* at the same time.  Such adds end with two peers on one address (C2's
\* witness), and no other way leads there: the peers provisioned one by one
\* hold different addresses.
C2_DuplicateOnlyByRace ==
    /\ \A u \in Users :
          Allocated(u) =>
              /\ peer[u].ip \notin peers_ip_set(seen[u])
              /\ \A r \in store : r.ip = peer[u].ip => r \notin seen[u]
    /\ \A r1 \in store : \A r2 \in store :
          (r1 # r2 /\ r1.ip = r2.ip) =>
              (r1.user_id \in Users /\ r2.user_id \in Users)

\* C2's case: two concurrent adds were given one address and both records are
\* in the store.
C2_DuplicateReached ==
    \E u1 \in Users : \E u2 \in Users :
        /\ u1 # u2
        /\ \E r1 \in RecordsOf(u1) : \E r2 \in RecordsOf(u2) : r1.ip = r2.ip

\* The pool of the code: 10.0.i.j with i in 0..254 and j in 2..254.
InPool(a) ==
    /\ Len(a) = 4
    /\ a[1] = 10
    /\ a[2] = 0
    /\ a[3] \in 0..(OctetEnd - 1)
    /\ a[4] \in JStart..(OctetEnd - 1)

\* C3: for every non-empty set of existing addresses that does not cover the
\* pool, get_ip returns (it does not panic), and what it returns is an address
\* of the pool that is not in the existing set.
C3_AllocateFresh ==
    (/\ peers_ip_set(existing) # {}
     /\ ~(ip_set \subseteq peers_ip_set(existing))
     /\ allocated # NoIp)
        => (/\ allocated # Panicked
            /\ InPool(allocated)
            /\ allocated \in ip_set
            /\ allocated \notin peers_ip_set(existing))

\* C3's case: get_ip has returned an address for a non-empty existing set.
C3_Allocated ==
    /\ peers_ip_set(existing) # {}
    /\ allocated # NoIp
    /\ allocated # Panicked

\* The interface holds an entry for the public key.
Registered(key) == \E e \in iface : e.public_key = key

\* The store holds a record with the public key.
Persisted(key) == \E r \in store : r.public_key = key

\* C4 as claimed: an add that finds every address of the pool taken returns
\* the PoolExhausted error to its caller, with nothing spawned.
C4_PoolExhaustedReturned ==
    \A u \in Users :
        (op[u] = "add" /\ get_ip(seen[u]) = {}) =>
            /\ pc[u] = "returned"
            /\ result[u] = Err("PoolExhausted")
            /\ child[u] = NoChild

\* The steps of an add, in their order.
Workflow == <<"KeysGenerated", "AddressAllocated", "InterfaceRegistered">>

\* C5: the steps an add has completed are the first steps of the workflow in
\* its order: the keys, then the address, then the registration.  The command
\* that registers the peer is spawned only after the first two, with the
\* public key and the address the Peer holds by then, and every entry of the
\* interface has a key and an address.
C5_StepsInOrder ==
    /\ \A u \in Users :
          op[u] = "add" =>
              /\ steps[u] = SubSeq(Workflow, 1, Len(steps[u]))
              /\ Len(steps[u]) >= 1 =>
                     (peer[u].public_key # NoKey /\ peer[u].private_key # NoKey)
              /\ Len(steps[u]) >= 2 => peer[u].ip \in ip_set
              /\ child[u].cmd # "none" =>
                     /\ Len(steps[u]) >= 2
                     /\ child[u].cmd = "allowed-ips"
                     /\ child[u].public_key = peer[u].public_key
                     /\ child[u].allowed_ip = peer[u].ip
    /\ \A e \in iface : e.public_key # NoKey /\ e.allowed_ip \in ip_set

\* C5's case: an add has run through its three steps and its peer is in the
\* interface.
C5_Registered ==
    \E u \in Users :
        /\ op[u] = "add"
        /\ steps[u] = Workflow
        /\ Entry(peer[u].public_key, peer[u].ip, HostPrefix) \in iface

\* C6 as claimed: once add_peer has returned an error, the interface holds no
\* entry for the peer's public key.
C6_NoRegistrationAfterError ==
    \A u \in Users :
        (op[u] = "add" /\ pc[u] = "returned" /\ result[u].kind = "Err") =>
            ~Registered(peer[u].public_key)

\* The add of user u has returned and has spawned nothing: spawn failed.
SpawnFailed(u) ==
    op[u] = "add" /\ pc[u] = "returned" /\ child[u].cmd = "none"

\* C7: when the executable cannot be spawned, add_peer returns the error of
\* spawn, the workflow has stopped at AddressAllocated, the interface has no
\* entry for the peer and the store no record of it; and the step the caller
\* takes next persists none.
C7_SpawnFailure ==
    [][\A u \in Users :
          /\ SpawnFailed(u)' =>
                 /\ result'[u] = Err("spawn")
                 /\ steps'[u] = SubSeq(Workflow, 1, 2)
                 /\ ~Registered(peer[u].public_key)'
                 /\ ~Persisted(peer[u].public_key)'
          /\ SpawnFailed(u) => ~Persisted(peer[u].public_key)']_vars

\* C7's case: an add has failed to spawn and its caller has given it up.
C7_Aborted ==
    \E u \in Users :
        /\ SpawnFailed(u)
        /\ result[u] = Err("spawn")
        /\ steps[u] = SubSeq(Workflow, 1, 2)

\* C8 as claimed: when the child has run and exited with a non-zero status,
\* add_peer and remove_peer return an error.
C8_ExitStatusChecked ==
    \A u \in Users :
        (pc[u] = "returned" /\ child[u].exited /\ child[u].status # 0) =>
            result[u].kind = "Err"

\* C9 as claimed: an add whose key generation has failed returns KeyGenError
\* to its caller, with no address allocated and nothing spawned.
C9_KeyGenErrorReturned ==
    \A u \in Users :
        (op[u] = "add" /\ pc[u] # "gen_keys" /\ steps[u] = <<>>) =>
            /\ pc[u] = "returned"
            /\ result[u] = Err("KeyGenError")
            /\ peer[u].ip = NoIp
            /\ child[u] = NoChild

\* remove_peer returns to the caller of user u in this step.
RemoveReturns(u) ==
    op[u] = "remove" /\ pc[u] = "wait" /\ pc'[u] = "returned"

\* C10 as claimed: a remove_peer that fails leaves the registration of the
\* peer as it was, and one that succeeds (after which the caller deletes the
\* record) has dropped it.
C10_RemoveSingleStep ==
    [][\A u \in Users :
          RemoveReturns(u) =>
              /\ result'[u].kind = "Err" =>
                     (Registered(peer[u].public_key)'
                          = Registered(peer[u].public_key))
              /\ result'[u].kind = "Ok" =>
                     ~Registered(peer[u].public_key)']_vars

\* C11 as claimed: while a peer stays active (its record stays in the store)
\* its private key is the one of its first provisioning: no step changes the
\* private key of a user's record.
C11_PrivateKeyKept ==
    [][\A u \in Users :
          \A r1 \in RecordsOf(u) : \A r2 \in RecordsOf(u)' :
              r2.private_key = r1.private_key]_vars

\* C12 as claimed: no record that the caller persisted after add_peer
\* carries a private key.
C12_PrivateKeyNotPersisted ==
    \A r \in store : r.user_id \in Users => r.private_key = NoKey

\* C16: the command add_peer spawns names the peer's own public key and the
\* address the same call allocated to it, as the host route ip/32; the
\* interface holds one entry per key, each a host route; and the entry of a
\* key holds the address of the record (persisted, or being populated by an
\* add) that has this key.
C16_HostRouteOfOwnAddress ==
    /\ \A u \in Users :
          (op[u] = "add" /\ child[u].cmd # "none") =>
              /\ child[u].public_key = peer[u].public_key
              /\ child[u].allowed_ip = peer[u].ip
              /\ child[u].allowed_ip \in get_ip(seen[u])
              /\ child[u].prefix = HostPrefix
    /\ \A e1 \in iface : \A e2 \in iface :
          e1.public_key = e2.public_key => e1 = e2
    /\ \A e \in iface :
          /\ e.prefix = HostPrefix
          /\ \A r \in store \cup {peer[u] : u \in Users} :
                r.public_key = e.public_key => r.ip = e.allowed_ip

\* C16's case: an add has registered its peer, the caller has persisted the
\* record, and the interface holds the entry of the record's key.
C16_RegisteredAndPersisted ==
    \E r \in store :
        /\ r.user_id \in Users
        /\ \E e \in iface : e.public_key = r.public_key

\* C17 as claimed, in the states most favourable to it (no call is in flight,
\* every caller has taken its step after the return): every entry of the
\* interface has a record in the store with its key and its address, and the
\* allocator does not count its address as free.
C17_RegisteredIsPersisted ==
    (\A u \in Users : pc[u] = "idle") =>
        \A e \in iface :
            /\ \E r \in store :
                  r.public_key = e.public_key /\ r.ip = e.allowed_ip
            /\ e.allowed_ip \notin get_ip(store)

\* add_peer has returned an error of the registration (of spawn or of wait).
RegistrationFailed(u) ==
    op[u] = "add" /\ pc[u] = "returned" /\ result[u].kind = "Err"

\* C18: when add_peer has returned an error of the registration, the Peer it
\* was passed is not as it was passed in: it holds the key pair gen_keys
\* returned to this call and the address get_ip picked from the peers this
\* call read.
C18_PeerNotRestored ==
    \A u \in Users :
        RegistrationFailed(u) =>
            /\ \E k \in 1..(nextKey - 1) :
                  /\ peer[u].private_key = gen_keys(k)[1]
                  /\ peer[u].public_key = gen_keys(k)[2]
            /\ peer[u].ip \in get_ip(seen[u])
            /\ peer[u] # EmptyPeer(u)

\* C18's case: wait() has failed after the child was spawned, add_peer has
\* returned the error and the caller has not yet taken its step.
C18_WaitFailed ==
    \E u \in Users :
        RegistrationFailed(u) /\ result[u] = Err("wait") /\ child[u].exited

\* The task of user u is in remove_peer, or has returned from it and its
\* caller has not yet taken its step.
InRemove(u) == op[u] = "remove" /\ pc[u] \in {"spawn", "wait", "returned"}

\* remove_peer of user u has deregistered the peer and returned Ok(()), and
\* the caller has not yet deleted the record.
Deregistered(u) ==
    /\ op[u] = "remove"
    /\ pc[u] = "returned"
    /\ result[u] = Ok
    /\ child[u].status = 0
    /\ ~Registered(peer[u].public_key)

\* C19: a step of remove_peer changes neither the Peer it was passed nor the
\* store; and while a peer is being removed (until the caller deletes its
\* record) an add that reads the peers is given an address other than the
\* address of that peer.
C19_RemoveKeepsRecord ==
    [][\A u \in Users :
          /\ (op[u] = "remove" /\ pc[u] \in {"spawn", "wait"}
                  /\ pc'[u] # pc[u]) =>
                 (peer'[u] = peer[u] /\ store' = store)
          /\ InRemove(u) =>
                 /\ peer[u] \in store
                 /\ peer[u].ip \notin get_ip(store)
                 /\ \A v \in Users :
                       (pc[v] = "get_ip" /\ pc'[v] = "spawn") =>
                           peer'[v].ip # peer[u].ip]_vars

\* C19's case: a peer has been deregistered and its record is still in the
\* store, and an add of another user that read the peers after that has been
\* given its address.
C19_AllocatedWhileDeregistered ==
    \E u \in Users : \E v \in Users :
        /\ Deregistered(u)
        /\ peer[u] \in store
        /\ Allocated(v)
        /\ peer[u] \in seen[v]

\* C15: when gen_keys has returned, the private key and the public key are
\* each KeyLen (44) characters long: the key the tool wrote, without the
\* whitespace around it.
C15_KeyLength ==
    keygen.pc = "returned" =>
        /\ Len(keygen.keys[1]) = KeyLen
        /\ Len(keygen.keys[2]) = KeyLen
        /\ \A n \in 1..2 : \A i \in 1..KeyLen :
              keygen.keys[n][i] \notin Whitespace
        /\ \E b \in Pads(MaxPad) : \E a \in Pads(MaxPad) :
              keygen.private_out = b \o keygen.keys[1] \o a
        /\ \E b \in Pads(MaxPad) : \E a \in Pads(MaxPad) :
              keygen.public_out = b \o keygen.keys[2] \o a

\* C15's case: gen_keys has returned, and the tool had written whitespace
\* around both keys.
C15_TrimmedKeysReturned ==
    /\ keygen.pc = "returned"
    /\ Len(keygen.private_out) > KeyLen
    /\ Len(keygen.public_out) > KeyLen

\* gen_conf for user u has returned the path of the file it wrote.
Rendered(u) == render[u].pc = "returned" /\ render[u].result.kind = "Ok"

\* C13: the file gen_conf has written for a peer holds, as Address, the
\* peer's address, a slash and the Subnet of the settings, or 16 when the
\* settings have none; as DNS and PersistentKeepalive the settings' DNS and
\* KeepAlive, or 8.8.8.8 and 25; and as PublicKey and Endpoint the settings'
\* Key and Endpoint, or no value when there is none.
C13_RenderedFields ==
    \A u \in Users :
        Rendered(u) =>
            LET doc == fs[render[u].result.why].content
                setting(k, default) ==
                    IF conf[k] = None THEN default ELSE conf[k][2]
            IN  /\ doc[<<"Interface", "Address">>]
                      = Some(<<to_string(RenderPeer(u).ip), "/",
                               setting("Subnet", to_string(16))>>)
                /\ doc[<<"Interface", "DNS">>]
                      = Some(setting("DNS", "8.8.8.8"))
                /\ doc[<<"Peer", "PersistentKeepalive">>]
                      = Some(setting("KeepAlive", to_string(25)))
                /\ doc[<<"Peer", "PublicKey">>] = conf["Key"]
                /\ doc[<<"Peer", "Endpoint">>] = conf["Endpoint"]
                /\ doc[<<"Interface", "PrivateKey">>]
                      = Some(RenderPeer(u).private_key)

\* C13's case: gen_conf has written a file from settings that hold a DNS
\* and an Endpoint, and no Subnet, Key or KeepAlive.
C13_RenderedWithDefaults ==
    /\ \E u \in Users : Rendered(u)
    /\ conf["Subnet"] = None /\ conf["Key"] = None /\ conf["KeepAlive"] = None
    /\ conf["DNS"] # None /\ conf["Endpoint"] # None

\* gen_conf for user u writes its file in this step.
RenderWrites(u) == render[u].pc = "write" /\ Rendered(u)'

C20_LockPerRead ==
    /\ [](/\ \A u \in Users :
              /\ render[u].pc = "lock" =>
                     (conf_lock # u /\ render[u].locks = render[u].at - 1)
              /\ render[u].pc = "read" =>
                     (conf_lock = u /\ render[u].locks = render[u].at)
              /\ render[u].pc \in {"write", "returned"} =>
                     (conf_lock # u /\ render[u].locks = 5)
              /\ render[u].pc = "idle" => conf_lock # u
          /\ conf_lock \in Users => render[conf_lock].pc = "read")
    /\ \A u \in Users :
          (render[u].pc # "idle") ~> (render[u].pc = "returned")

\* C20's case: gen_conf has returned a config whose DNS is the one the
\* settings held when the call began and whose Endpoint is one loaded while
\* the call was running.
C20_MixedSettings ==
    \E u \in Users :
        /\ Rendered(u)
        /\ render[u].config[<<"Interface", "DNS">>]
              = Some(SettingValue("DNS", 0))
        /\ \E n \in 1..MaxCalls :
              render[u].config[<<"Peer", "Endpoint">>]
                  = Some(SettingValue("Endpoint", n))

============================================================================
